---- MODULE Spec2Model ----
(***************************************************************************)
(* Model of the SolMaestro/Safe vault program: the record codec of         *)
(* src/src/state.rs and the three handlers of src/src/processor.rs         *)
(* (init_vault, deposit_tokens, withdraw_tokens).                          *)
(*                                                                         *)
(* Every handler is one action.  Account data is modelled as the buffer    *)
(* the codec writes, segment by segment; a write that the code performs    *)
(* before a later check fails stays written, as the handlers themselves    *)
(* undo nothing.                                                           *)
(***************************************************************************)
EXTENDS Integers, Sequences, FiniteSets, TLC

\* ------------------------------------------------------------------ bounds
\* Largest value of the model's u64 (u64::MAX scaled down).
MaxU64 == 2
\* Number of bytes deposited_amount occupies in a UserVault buffer.
AmountBytes == 2

\* Largest tag byte of an instruction buffer (tags 0, 1, 2 and one more).
MaxTag == 3
\* Bytes an instruction buffer can carry beyond the amount.
ExtraBytes == 2

U64 == 0..MaxU64

\* Radix of one byte: the least one in which AmountBytes bytes hold every u64.
ByteBase == CHOOSE b \in 2..(MaxU64 + 1) :
              /\ b ^ AmountBytes > MaxU64
              /\ \A c \in 2..(MaxU64 + 1) : c ^ AmountBytes > MaxU64 => b <= c

\* ------------------------------------------------------------ identities
\* Pubkeys of the principals that call the program.
Users == {"A", "B"}
\* Pubkey::default(), the all-zero key of a zero-filled buffer.
ZeroKey == "0"
\* Key of the vault state account.
VaultKey == "V"
\* Token mints and token accounts a caller can pass.
Mints == {"M"}
TokenAccounts == {"P", "X"}

\* Pubkey::find_program_address: deterministic and injective in its seeds.
find_program_address(seeds) == <<"pda", seeds>>
\* The user vault address deposit_tokens and withdraw_tokens expect.
UserVaultPda(user, vault) == find_program_address(<<"user_vault", user, vault>>)
\* The authority that signs the outgoing transfer of withdraw_tokens.
VaultAuthority == find_program_address(<<"vault">>)
\* The addresses a caller can pass as user_vault_account.
UserVaultKeys == {UserVaultPda(u, VaultKey) : u \in Users}
\* The token account a user pays from and is paid to.
UserTokenAccount(u) == <<"token", u>>

\* ------------------------------------------------------------- arithmetic
None == -1

\* Mutant of checked_add: the sum wraps instead of being refused.
wrapping_add(a, b) == (a + b) % (MaxU64 + 1)

\* u64::checked_add.
checked_add(a, b) == IF a + b <= MaxU64 THEN a + b ELSE None

\* Mutant of checked_sub: the difference wraps instead of being refused.
wrapping_sub(a, b) == (a - b) % (MaxU64 + 1)

\* u64::checked_sub.
checked_sub(a, b) == IF a >= b THEN a - b ELSE None

\* Mutant of balance_below: a request one above the balance passes.
balance_below_off_by_one(deposited_amount, amount) == deposited_amount + 1 < amount

\* The balance test of withdraw_tokens: user_vault.deposited_amount < amount.
balance_below(deposited_amount, amount) == deposited_amount < amount

\* ------------------------------------------------------------ the codec
Bool2Byte(b) == IF b THEN 1 ELSE 0

\* u64::to_le_bytes: least significant byte first.
to_le_bytes(x) == [i \in 1..AmountBytes |-> (x \div (ByteBase ^ (i - 1))) % ByteBase]

RECURSIVE LeValue(_, _)
LeValue(bytes, i) ==
  IF i > Len(bytes) THEN 0
  ELSE bytes[i] * (ByteBase ^ (i - 1)) + LeValue(bytes, i + 1)

\* u64::from_le_bytes.
from_le_bytes(bytes) == LeValue(bytes, 1)

\* Mutant of Vault_pack_into_slice: owner and token_mint are copied into
\* each other's segment.
Vault_pack_into_slice_swapped(v) ==
  <<Bool2Byte(v.is_initialized), v.token_mint, v.owner, v.vault_token_account>>

\* Vault::pack_into_slice: the buffer has four segments; total_deposits is
\* not one of them.
Vault_pack_into_slice(v) ==
  <<Bool2Byte(v.is_initialized), v.owner, v.token_mint, v.vault_token_account>>

\* Vault::unpack_from_slice.  The buffer carries no total_deposits, so the
\* value the processor reads in that field is not decided by the buffer:
\* `td` stands for it.
Vault_unpack_from_slice(src, td) ==
  [is_initialized |-> src[1] # 0,
   owner |-> src[2],
   token_mint |-> src[3],
   vault_token_account |-> src[4],
   total_deposits |-> td]

\* UserVault::pack_into_slice.
UserVault_pack_into_slice(u) ==
  <<Bool2Byte(u.is_initialized), u.user, u.vault, to_le_bytes(u.deposited_amount)>>

\* UserVault::unpack_from_slice.
UserVault_unpack_from_slice(src) ==
  [is_initialized |-> src[1] # 0,
   user |-> src[2],
   vault |-> src[3],
   deposited_amount |-> from_le_bytes(src[4])]

\* A zero-filled Vault buffer and an account without data.
ZeroVaultData == <<0, ZeroKey, ZeroKey, ZeroKey>>
EmptyData == <<>>

\* AccountInfo::data_is_empty.
data_is_empty(data) == Len(data) = 0

\* Mutant of Vault_is_initialized: no record counts as initialized.
Vault_never_initialized(v) == FALSE

\* IsInitialized for Vault.
Vault_is_initialized(v) == v.is_initialized

\* IsInitialized for UserVault.
UserVault_is_initialized(u) == u.is_initialized

\* Mutant of UserVault_unpack: an account without data is read as a record
\* with nothing deposited, as deposit_tokens does.
UserVault_unpack_or_default(data) ==
  IF data_is_empty(data)
  THEN [err |-> "Ok", value |-> [is_initialized |-> TRUE, user |-> ZeroKey,
                                 vault |-> VaultKey, deposited_amount |-> 0]]
  ELSE IF ~UserVault_is_initialized(UserVault_unpack_from_slice(data))
       THEN [err |-> "UninitializedAccount"]
       ELSE [err |-> "Ok", value |-> UserVault_unpack_from_slice(data)]

\* Pack::unpack for UserVault: the decoded record, or the error.
UserVault_unpack(data) ==
  IF data_is_empty(data) THEN [err |-> "InvalidAccountData"]
  ELSE IF ~UserVault_is_initialized(UserVault_unpack_from_slice(data))
       THEN [err |-> "UninitializedAccount"]
       ELSE [err |-> "Ok", value |-> UserVault_unpack_from_slice(data)]

\* Mutant of Vault_unpack: the record is not tested for being initialized
\* (Pack::unpack_unchecked).
Vault_unpack_unchecked(data, td) ==
  [err |-> "Ok", value |-> Vault_unpack_from_slice(data, td)]

\* Pack::unpack for Vault (IsInitialized for Vault decides).
Vault_unpack(data, td) ==
  IF ~Vault_is_initialized(Vault_unpack_from_slice(data, td))
  THEN [err |-> "UninitializedAccount"]
  ELSE [err |-> "Ok", value |-> Vault_unpack_from_slice(data, td)]

\* ------------------------------------------------------------------ state
VARIABLES
  vault_data,       \* data of the vault state account
  total_deposits,   \* what a Vault decoded from vault_data holds in total_deposits
  user_data,        \* data of each user vault account, by the user of its address
  call,             \* the invocation handled last
  result,           \* what it returned
  xfer,             \* the token transfers it invoked, in order
  written,          \* the accounts it packed a record into
  codec,            \* the record codec applied to one record
  decoding,         \* the instruction decoder applied to one buffer
  flow,             \* per user: amounts deposited less amounts withdrawn, over
                    \* the invocations that returned Ok
  pool              \* amount the accepted transfers moved into the recorded
                    \* vault token account, less the amount they moved out of it

vars == <<vault_data, total_deposits, user_data, call, result, xfer, written, codec,
          decoding, flow, pool>>

records == <<vault_data, total_deposits, user_data>>

NoCall == [op |-> "None", requester |-> ZeroKey, is_signer |-> FALSE, amount |-> 0,
           user_vault_account |-> ZeroKey, token_mint |-> ZeroKey,
           vault_token_account |-> ZeroKey]

CodecIdle == [kind |-> "None"]

DecoderIdle == [done |-> FALSE]

Init ==
  /\ vault_data = ZeroVaultData
  /\ total_deposits \in U64
  /\ user_data = [u \in Users |-> EmptyData]
  /\ call = NoCall
  /\ result = "None"
  /\ xfer = <<>>
  /\ written = {}
  /\ codec = CodecIdle
  /\ decoding = DecoderIdle
  /\ flow = [u \in Users |-> 0]
  /\ pool = 0

\* The handler returns `res` having invoked `xf` and packed into `wr`.
Return(res, xf, wr) ==
  /\ result' = res
  /\ xfer' = xf
  /\ written' = wr

\* The handler returns the error `res` before any pack and any transfer.
Reject(res) ==
  /\ Return(res, <<>>, {})
  /\ UNCHANGED records

\* Vault::pack into the vault state account.
Vault_pack(v) ==
  /\ vault_data' = Vault_pack_into_slice(v)
  /\ total_deposits' \in U64

\* Mutant of UserVault_pack: a record with nothing deposited is stored as
\* not initialized.
UserVault_pack_closing(rec, u) ==
  user_data' = [user_data EXCEPT ![u] =
                  UserVault_pack_into_slice(
                    [rec EXCEPT !.is_initialized = rec.deposited_amount # 0])]

\* UserVault::pack into the user vault account of `u`.
UserVault_pack(rec, u) ==
  user_data' = [user_data EXCEPT ![u] = UserVault_pack_into_slice(rec)]

\* spl_token transfer of `amount`, as the handlers build it.
Transfer(source, destination, authority, amount, ok) ==
  [source |-> source, destination |-> destination, authority |-> authority,
   amount |-> amount, ok |-> ok]

\* ------------------------------------------------------------ init_vault
InitCall(initializer, is_signer, token_mint, vault_token_account) ==
  [op |-> "InitVault", requester |-> initializer, is_signer |-> is_signer, amount |-> 0,
   user_vault_account |-> ZeroKey, token_mint |-> token_mint,
   vault_token_account |-> vault_token_account]

\* init_vault from the load of the vault account on.
init_vault_signed(initializer, token_mint, vault_token_account) ==
  LET vault_data_in == Vault_unpack_from_slice(vault_data, total_deposits) IN
  IF Vault_is_initialized(vault_data_in)
  THEN Reject("AccountAlreadyInitialized")
  ELSE /\ Vault_pack([vault_data_in EXCEPT
                        !.is_initialized = TRUE,
                        !.owner = initializer,
                        !.token_mint = token_mint,
                        !.vault_token_account = vault_token_account])
       /\ UNCHANGED user_data
       /\ Return("Ok", <<>>, {VaultKey})

\* Mutant of init_vault: the signer test is missing.
init_vault_unsigned(initializer, is_signer, token_mint, vault_token_account) ==
  /\ call' = InitCall(initializer, is_signer, token_mint, vault_token_account)
  /\ UNCHANGED <<codec, decoding>>
  /\ init_vault_signed(initializer, token_mint, vault_token_account)

init_vault(initializer, is_signer, token_mint, vault_token_account) ==
  /\ call' = InitCall(initializer, is_signer, token_mint, vault_token_account)
  /\ UNCHANGED <<codec, decoding>>
  /\ IF ~is_signer
     THEN Reject("MissingRequiredSignature")
     ELSE init_vault_signed(initializer, token_mint, vault_token_account)

\* -------------------------------------------------------- deposit_tokens
\* The user whose derived address the account passed as user_vault_account
\* has: the handlers read and pack the account passed.
user_vault_slot(key) == CHOOSE u \in Users : UserVaultPda(u, VaultKey) = key

\* Mutant of pda_mismatch: the account passed is never compared.
pda_mismatch_ignored(expected_user_vault_pda, key) == FALSE

\* The test of the account passed against the derived address.
pda_mismatch(expected_user_vault_pda, key) == expected_user_vault_pda # key

LedgerCall(op, requester, is_signer, user_vault_account, amount) ==
  [op |-> op, requester |-> requester, is_signer |-> is_signer, amount |-> amount,
   user_vault_account |-> user_vault_account, token_mint |-> ZeroKey,
   vault_token_account |-> ZeroKey]

\* deposit_tokens from the load of the vault account on.  The accounts it
\* reads only at the transfer (the vault token account passed, and whether
\* the token program accepts the transfer) are drawn where it invokes it.
deposit_tokens_signed(depositor, user_vault_account, amount) ==
  LET unpacked == Vault_unpack(vault_data, total_deposits) IN
  IF unpacked.err # "Ok"
  THEN Reject(unpacked.err)
  ELSE LET vault == unpacked.value
           new_total == checked_add(vault.total_deposits, amount) IN
  IF new_total = None
  THEN Reject("InvalidInstructionData")
  ELSE /\ IF pda_mismatch(UserVaultPda(depositor, VaultKey), user_vault_account)
          THEN /\ Return("InvalidAccountData", <<>>, {VaultKey})
               /\ UNCHANGED user_data
          ELSE LET loaded ==
                     IF data_is_empty(user_data[user_vault_slot(user_vault_account)])
                     THEN [err |-> "Ok",
                           value |-> [is_initialized |-> TRUE, user |-> depositor,
                                      vault |-> VaultKey, deposited_amount |-> 0]]
                     ELSE UserVault_unpack(user_data[user_vault_slot(user_vault_account)]) IN
          IF loaded.err # "Ok"
          THEN /\ Return(loaded.err, <<>>, {VaultKey})
               /\ UNCHANGED user_data
          ELSE \E vault_token_account \in TokenAccounts, transfer_ok \in BOOLEAN :
               LET transfer == Transfer(UserTokenAccount(depositor), vault_token_account,
                                        depositor, amount, transfer_ok)
                   new_amount == checked_add(loaded.value.deposited_amount, amount) IN
               IF ~transfer_ok
               THEN /\ Return("TransferError", <<transfer>>, {VaultKey})
                    /\ UNCHANGED user_data
               ELSE IF new_amount = None
               THEN /\ Return("InvalidInstructionData", <<transfer>>, {VaultKey})
                    /\ UNCHANGED user_data
               ELSE /\ UserVault_pack([loaded.value EXCEPT !.deposited_amount = new_amount],
                                      user_vault_slot(user_vault_account))
                    /\ Return("Ok", <<transfer>>, {VaultKey, user_vault_account})
       \* Vault::pack (line 117) has run on every path above; it is the last
       \* conjunct so that the total read back is drawn once per outcome.
       /\ Vault_pack([vault EXCEPT !.total_deposits = new_total])

deposit_tokens(depositor, is_signer, user_vault_account, amount) ==
  /\ call' = LedgerCall("Deposit", depositor, is_signer, user_vault_account, amount)
  /\ UNCHANGED <<codec, decoding>>
  /\ IF ~is_signer
     THEN Reject("MissingRequiredSignature")
     ELSE deposit_tokens_signed(depositor, user_vault_account, amount)

\* ------------------------------------------------------- withdraw_tokens
withdraw_tokens_signed(user, user_vault_account, amount) ==
  LET unpacked == Vault_unpack(vault_data, total_deposits) IN
  IF unpacked.err # "Ok"
  THEN Reject(unpacked.err)
  ELSE LET vault == unpacked.value
           new_total == checked_sub(vault.total_deposits, amount) IN
  IF new_total = None
  THEN Reject("InsufficientFunds")
  ELSE /\ IF pda_mismatch(UserVaultPda(user, VaultKey), user_vault_account)
          THEN /\ Return("InvalidAccountData", <<>>, {VaultKey})
               /\ UNCHANGED user_data
          ELSE LET loaded == UserVault_unpack(user_data[user_vault_slot(user_vault_account)]) IN
          IF loaded.err # "Ok"
          THEN /\ Return(loaded.err, <<>>, {VaultKey})
               /\ UNCHANGED user_data
          ELSE IF balance_below(loaded.value.deposited_amount, amount)
          THEN /\ Return("InsufficientFunds", <<>>, {VaultKey})
               /\ UNCHANGED user_data
          ELSE /\ UserVault_pack([loaded.value EXCEPT
                                    !.deposited_amount = loaded.value.deposited_amount - amount],
                                 user_vault_slot(user_vault_account))
               /\ \E vault_token_account \in TokenAccounts, transfer_ok \in BOOLEAN :
                    LET transfer == Transfer(vault_token_account, UserTokenAccount(user),
                                             VaultAuthority, amount, transfer_ok) IN
                    Return(IF transfer_ok THEN "Ok" ELSE "TransferError",
                           <<transfer>>, {VaultKey, user_vault_account})
       \* Vault::pack (line 202) has run on every path above; it is the last
       \* conjunct so that the total read back is drawn once per outcome.
       /\ Vault_pack([vault EXCEPT !.total_deposits = new_total])

withdraw_tokens(user, is_signer, user_vault_account, amount) ==
  /\ call' = LedgerCall("Withdraw", user, is_signer, user_vault_account, amount)
  /\ UNCHANGED <<codec, decoding>>
  /\ IF ~is_signer
     THEN Reject("MissingRequiredSignature")
     ELSE withdraw_tokens_signed(user, user_vault_account, amount)

\* ---------------------------------------------------------- the program
Next ==
  \/ \E u \in Users, s \in BOOLEAN, m \in Mints, t \in TokenAccounts :
       init_vault(u, s, m, t) /\ UNCHANGED <<flow, pool>>
  \/ \E u \in Users, s \in BOOLEAN, k \in UserVaultKeys, a \in U64 :
       deposit_tokens(u, s, k, a) /\ UNCHANGED <<flow, pool>>
  \/ \E u \in Users, s \in BOOLEAN, k \in UserVaultKeys, a \in U64 :
       withdraw_tokens(u, s, k, a) /\ UNCHANGED <<flow, pool>>

Spec == Init /\ [][Next]_vars

\* Only the invocations that return Ok.
NextOk ==
  \/ \E u \in Users, s \in BOOLEAN, m \in Mints, t \in TokenAccounts :
       init_vault(u, s, m, t) /\ result' = "Ok" /\ UNCHANGED <<flow, pool>>
  \/ \E u \in Users, s \in BOOLEAN, k \in UserVaultKeys, a \in U64 :
       deposit_tokens(u, s, k, a) /\ result' = "Ok" /\ UNCHANGED <<flow, pool>>
  \/ \E u \in Users, s \in BOOLEAN, k \in UserVaultKeys, a \in U64 :
       withdraw_tokens(u, s, k, a) /\ result' = "Ok" /\ UNCHANGED <<flow, pool>>

SpecOk == Init /\ [][NextOk]_vars

\* ------------------------------------------------- the codec on its own
\* Keys the records of the codec runs are built from.
CodecKeys == {ZeroKey, "A"}

VaultRecords ==
  [is_initialized : BOOLEAN, owner : CodecKeys, token_mint : CodecKeys,
   vault_token_account : CodecKeys, total_deposits : U64]

UserVaultRecords ==
  [is_initialized : BOOLEAN, user : CodecKeys, vault : CodecKeys, deposited_amount : U64]

\* Vault::pack_into_slice of `r`, then Vault::unpack_from_slice of the buffer.
Vault_round_trip(r) ==
  /\ \E td \in U64 :
       codec' = [kind |-> "Vault", record |-> r, buffer |-> Vault_pack_into_slice(r),
                 decoded |-> Vault_unpack_from_slice(Vault_pack_into_slice(r), td)]
  /\ UNCHANGED <<vault_data, total_deposits, user_data, call, result, xfer, written, decoding,
                 flow, pool>>

\* UserVault::pack_into_slice of `r`, then UserVault::unpack_from_slice.
UserVault_round_trip(r) ==
  /\ codec' = [kind |-> "UserVault", record |-> r,
               buffer |-> UserVault_pack_into_slice(r),
               decoded |-> UserVault_unpack_from_slice(UserVault_pack_into_slice(r))]
  /\ UNCHANGED <<vault_data, total_deposits, user_data, call, result, xfer, written, decoding,
                 flow, pool>>

NextCodec ==
  \/ \E r \in VaultRecords : Vault_round_trip(r)
  \/ \E r \in UserVaultRecords : UserVault_round_trip(r)

SpecCodec == Init /\ [][NextCodec]_vars

\* ------------------------------------------- the instruction decoder
\* What VaultInstruction::unpack returns for a buffer it rejects.
NoInstruction == [variant |-> "None"]

\* rest.get(..8) converted to [u8; 8]: the leading bytes of the payload, if
\* it has that many.
leading_bytes(rest) ==
  IF Len(rest) >= AmountBytes THEN SubSeq(rest, 1, AmountBytes) ELSE <<>>

\* The amount of a Deposit or Withdraw payload, or None.
unpack_amount(rest) ==
  IF Len(leading_bytes(rest)) = AmountBytes THEN from_le_bytes(leading_bytes(rest)) ELSE None

\* Mutant of VaultInstruction_unpack: tags 1 and 2 are swapped.
VaultInstruction_unpack_swapped(input) ==
  IF Len(input) = 0 THEN NoInstruction
  ELSE LET tag == Head(input)
           rest == Tail(input) IN
       CASE tag = 0 -> [variant |-> "InitVault"]
         [] tag = 2 -> IF unpack_amount(rest) = None THEN NoInstruction
                       ELSE [variant |-> "Deposit", amount |-> unpack_amount(rest)]
         [] tag = 1 -> IF unpack_amount(rest) = None THEN NoInstruction
                       ELSE [variant |-> "Withdraw", amount |-> unpack_amount(rest)]
         [] OTHER -> NoInstruction

\* VaultInstruction::unpack.
VaultInstruction_unpack(input) ==
  IF Len(input) = 0 THEN NoInstruction
  ELSE LET tag == Head(input)
           rest == Tail(input) IN
       CASE tag = 0 -> [variant |-> "InitVault"]
         [] tag = 1 -> IF unpack_amount(rest) = None THEN NoInstruction
                       ELSE [variant |-> "Deposit", amount |-> unpack_amount(rest)]
         [] tag = 2 -> IF unpack_amount(rest) = None THEN NoInstruction
                       ELSE [variant |-> "Withdraw", amount |-> unpack_amount(rest)]
         [] OTHER -> NoInstruction

\* Byte sequences of length at most n over the bytes of the model.
RECURSIVE ByteSeqs(_)
ByteSeqs(n) ==
  IF n = 0 THEN {<<>>}
  ELSE LET shorter == ByteSeqs(n - 1) IN
       shorter \cup {Append(q, b) : q \in shorter, b \in 0..(ByteBase - 1)}

\* The instruction buffers handed to the decoder: empty, or a tag byte and
\* a payload shorter than, as long as, or longer than an amount.
InstructionData ==
  {<<>>} \cup {<<t>> \o q : t \in 0..MaxTag, q \in ByteSeqs(AmountBytes + ExtraBytes)}

\* process_instruction decodes `input`.
unpack(input) ==
  /\ decoding' = [done |-> TRUE, input |-> input, output |-> VaultInstruction_unpack(input)]
  /\ UNCHANGED <<vault_data, total_deposits, user_data, call, result, xfer, written, codec,
                 flow, pool>>

NextUnpack == \E input \in InstructionData : unpack(input)

SpecUnpack == Init /\ [][NextUnpack]_vars

\* ------------------------------------------------- what the records hold
\* The Vault a handler decodes from the vault state account.
VaultRecord == Vault_unpack_from_slice(vault_data, total_deposits)

\* The user vault account of `u` holds a record.
HasUserVault(u) == ~data_is_empty(user_data[u])

\* deposited_amount of the record of `u`; an account without data counts 0.
UserAmount(u) ==
  IF HasUserVault(u) THEN UserVault_unpack_from_slice(user_data[u]).deposited_amount ELSE 0

RECURSIVE SumAmounts(_)
SumAmounts(S) ==
  IF S = {} THEN 0
  ELSE LET u == CHOOSE x \in S : TRUE IN UserAmount(u) + SumAmounts(S \ {u})

\* ------------------------------------------------------ deposits and withdrawals
\* The handlers with the amounts of the invocations that returned Ok tallied
\* per requester.  The tally of a user is followed up to MaxFlow.
MaxFlow == 2

Tally(op, requester, amount) ==
  flow' = IF result' # "Ok" THEN flow
          ELSE [flow EXCEPT ![requester] =
                  IF op = "Deposit" THEN @ + amount ELSE @ - amount]

NextFlow ==
  \/ \E u \in Users, s \in BOOLEAN, m \in Mints, t \in TokenAccounts :
       init_vault(u, s, m, t) /\ UNCHANGED <<flow, pool>>
  \/ \E u \in Users, s \in BOOLEAN, k \in UserVaultKeys, a \in U64 :
       deposit_tokens(u, s, k, a) /\ Tally("Deposit", u, a) /\ flow'[u] <= MaxFlow
         /\ UNCHANGED pool
  \/ \E u \in Users, s \in BOOLEAN, k \in UserVaultKeys, a \in U64 :
       withdraw_tokens(u, s, k, a) /\ Tally("Withdraw", u, a) /\ UNCHANGED pool

SpecFlow == Init /\ [][NextFlow]_vars

\* ------------------------------------------------------- the vault token account
\* The handlers with the tokens of the recorded vault token account
\* tallied.  A token account holds no negative amount, so the token program
\* accepts no transfer out of it beyond what it holds; the tally is followed
\* up to MaxPool.
MaxPool == 2

RECURSIVE MovedIn(_, _)
MovedIn(transfers, account) ==
  IF transfers = <<>> THEN 0
  ELSE LET t == Head(transfers) IN
       (IF ~t.ok THEN 0
        ELSE (IF t.destination = account THEN t.amount ELSE 0)
             - (IF t.source = account THEN t.amount ELSE 0))
       + MovedIn(Tail(transfers), account)

Settle ==
  /\ pool' = pool + MovedIn(xfer', VaultRecord.vault_token_account)
  /\ pool' \in 0..MaxPool

NextPool ==
  \/ \E u \in Users, s \in BOOLEAN, m \in Mints, t \in TokenAccounts :
       init_vault(u, s, m, t) /\ UNCHANGED <<flow, pool>>
  \/ \E u \in Users, s \in BOOLEAN, k \in UserVaultKeys, a \in U64 :
       deposit_tokens(u, s, k, a) /\ Settle /\ UNCHANGED flow
  \/ \E u \in Users, s \in BOOLEAN, k \in UserVaultKeys, a \in U64 :
       withdraw_tokens(u, s, k, a) /\ Settle /\ UNCHANGED flow

SpecPool == Init /\ [][NextPool]_vars

\* The last invocation passed the user vault address derived for its requester.
AddressMatches(c) == c.user_vault_account = UserVaultPda(c.requester, VaultKey)

\* ------------------------------------------------------------------ C1
\* C1: after any sequence of successful invocations on a created vault, the
\* total_deposits of the persisted Vault equals the sum of deposited_amount
\* over the user vaults.  (Checked under SpecOk, where every step returns
\* Ok.)  Stated as the claim states it; Vault::pack_into_slice stores no
\* total_deposits, so it fails.
C1_TotalEqualsSum ==
  VaultRecord.is_initialized => VaultRecord.total_deposits = SumAmounts(Users)

\* ------------------------------------------------------------------ C2
\* C2: a Withdraw that returns InsufficientFunds has written nothing: the
\* vault record and the user records are as before it.  Stated as the claim
\* states it; withdraw_tokens packs the Vault before the balance test.
C2_FailedWithdrawWritesNothing ==
  [][(call'.op = "Withdraw" /\ result' = "InsufficientFunds")
       => (UNCHANGED records /\ written' = {})]_vars

\* ------------------------------------------------------------------ C3
\* C3: a Withdraw by a signer, at the derived address, of more than the
\* deposited_amount of the existing record returns InsufficientFunds and
\* invokes no transfer.
C3_OverdrawRefused ==
  [][\A u \in Users :
       (/\ call'.op = "Withdraw"
        /\ call'.requester = u
        /\ call'.is_signer
        /\ AddressMatches(call')
        /\ HasUserVault(u)
        /\ UserVault_unpack(user_data[u]).err = "Ok"
        /\ call'.amount > UserAmount(u))
       => (result' = "InsufficientFunds" /\ xfer' = <<>>)]_vars

\* The balance test refused an overdraw that the vault total allowed.
C3_Witness ==
  /\ call.op = "Withdraw"
  /\ call.is_signer
  /\ AddressMatches(call)
  /\ HasUserVault(call.requester)
  /\ call.amount > UserAmount(call.requester)
  /\ result = "InsufficientFunds"
  /\ written = {VaultKey}
  /\ xfer = <<>>

\* ------------------------------------------------------------------ C4
\* C4: a Deposit (by a signer, on an initialized vault) whose amount added
\* to total_deposits exceeds the u64 maximum returns the overflow error of
\* deposit_tokens (InvalidInstructionData, the spec's ArithmeticOverflow);
\* no record is written and no transfer is invoked.
C4_OverflowRefused ==
  [][(/\ call'.op = "Deposit"
      /\ call'.is_signer
      /\ VaultRecord.is_initialized
      /\ VaultRecord.total_deposits + call'.amount > MaxU64)
       => (/\ result' = "InvalidInstructionData"
           /\ UNCHANGED records
           /\ written' = {}
           /\ xfer' = <<>>)]_vars

\* A Deposit was refused for overflowing the total of an initialized vault.
C4_Witness ==
  /\ call.op = "Deposit"
  /\ call.is_signer
  /\ VaultRecord.is_initialized
  /\ VaultRecord.total_deposits + call.amount > MaxU64
  /\ result = "InvalidInstructionData"
  /\ written = {}
  /\ xfer = <<>>

\* ------------------------------------------------------------------ C5
\* C5: a Deposit or Withdraw by a signer on an initialized vault that passes
\* a user vault address other than the derived one returns the address
\* error (InvalidAccountData at the address test, the spec's
\* InvalidAccountAddress), whatever the amount.  Stated as the claim states
\* it; both handlers do the arithmetic on total_deposits first.
C5_MismatchAlwaysAddressError ==
  [][(/\ call'.op \in {"Deposit", "Withdraw"}
      /\ call'.is_signer
      /\ VaultRecord.is_initialized
      /\ ~AddressMatches(call'))
       => result' = "InvalidAccountData"]_vars

\* ------------------------------------------------------------------ C6
\* C6: InitVault on a vault whose record is initialized leaves the record
\* as it is, whoever the requester is, and a signer gets
\* AccountAlreadyInitialized (the spec's AlreadyInitialized).
C6_ReinitRefused ==
  [][(call'.op = "InitVault" /\ VaultRecord.is_initialized)
       => (/\ UNCHANGED records
           /\ written' = {}
           /\ (call'.is_signer => result' = "AccountAlreadyInitialized"))]_vars

\* A signer other than the owner was refused a second InitVault.
C6_Witness ==
  /\ call.op = "InitVault"
  /\ call.is_signer
  /\ VaultRecord.is_initialized
  /\ call.requester # VaultRecord.owner
  /\ call.vault_token_account # VaultRecord.vault_token_account
  /\ result = "AccountAlreadyInitialized"

\* ------------------------------------------------------------------ C7
\* C7: a successful Deposit adds exactly its amount to total_deposits and
\* to the deposited_amount of the requester (an account without data
\* counting 0 and becoming an initialized record of the requester and the
\* vault); a successful Withdraw subtracts it from both.  Stated as the
\* claim states it; it fails on total_deposits, which the Vault buffer does
\* not hold.
C7_ExactAmounts ==
  [][\A u \in Users :
       (call'.requester = u /\ result' = "Ok") =>
         /\ call'.op = "Deposit" =>
              /\ VaultRecord.total_deposits' = VaultRecord.total_deposits + call'.amount
              /\ UserAmount(u)' = UserAmount(u) + call'.amount
              /\ UserVault_unpack_from_slice(user_data[u])' =
                   [is_initialized |-> TRUE, user |-> u, vault |-> VaultKey,
                    deposited_amount |-> UserAmount(u) + call'.amount]
         /\ call'.op = "Withdraw" =>
              /\ VaultRecord.total_deposits' = VaultRecord.total_deposits - call'.amount
              /\ UserAmount(u)' = UserAmount(u) - call'.amount]_vars

\* ------------------------------------------------------------------ C8
\* C8: an invocation whose requester is no signer returns
\* MissingRequiredSignature (the spec's Unauthorized), writes no record and
\* invokes no transfer, whatever its other arguments are.
C8_UnsignedRefusedFirst ==
  [][(call'.op # "None" /\ ~call'.is_signer)
       => (/\ result' = "MissingRequiredSignature"
           /\ UNCHANGED records
           /\ written' = {}
           /\ xfer' = <<>>)]_vars

\* An unsigned Withdraw of a positive amount from an existing user vault
\* of an initialized vault was refused.
C8_Witness ==
  /\ call.op = "Withdraw"
  /\ ~call.is_signer
  /\ call.amount > 0
  /\ VaultRecord.is_initialized
  /\ HasUserVault(call.requester)
  /\ UserAmount(call.requester) >= call.amount
  /\ result = "MissingRequiredSignature"

\* ------------------------------------------------------------------ C9
\* C9: after a successful InitVault the Vault record is initialized, its
\* owner is the requester, its token_mint and vault_token_account are the
\* accounts passed, and its total_deposits is 0.  Stated as the claim states
\* it; init_vault sets no total_deposits and the buffer holds none.
C9_CreatedVault ==
  (call.op = "InitVault" /\ result = "Ok")
    => VaultRecord = [is_initialized |-> TRUE,
                      owner |-> call.requester,
                      token_mint |-> call.token_mint,
                      vault_token_account |-> call.vault_token_account,
                      total_deposits |-> 0]

\* ----------------------------------------------------------------- C10
\* C10: decoding the encoding of a Vault or UserVault record gives the
\* record back in every field.  Stated as the claim states it (checked under
\* SpecCodec); it fails on the total_deposits of a Vault.
C10_RoundTrip ==
  codec.kind # "None" => codec.decoded = codec.record

\* ----------------------------------------------------------------- C11
\* C11: VaultInstruction::unpack returns nothing for the empty buffer,
\* InitVault for tag 0 whatever follows, for tag 1 (2) Deposit (Withdraw)
\* with the little-endian value of the first amount bytes when the payload
\* has at least that many (further bytes ignored) and nothing when it has
\* fewer, and nothing for any other tag.  (Checked under SpecUnpack.)
C11_Unpack ==
  decoding.done =>
    LET input == decoding.input
        output == decoding.output IN
    IF Len(input) = 0 THEN output.variant = "None"
    ELSE IF input[1] = 0 THEN output = [variant |-> "InitVault"]
    ELSE IF input[1] \in {1, 2}
         THEN IF Len(input) - 1 < AmountBytes THEN output.variant = "None"
              ELSE /\ output.variant = (IF input[1] = 1 THEN "Deposit" ELSE "Withdraw")
                   /\ \A i \in 1..AmountBytes : to_le_bytes(output.amount)[i] = input[i + 1]
                   /\ output.amount < ByteBase ^ AmountBytes
    ELSE output.variant = "None"

\* A Deposit was decoded from a payload longer than an amount whose most
\* significant byte is not its least significant one.
C11_Witness ==
  /\ decoding.done
  /\ Len(decoding.input) > AmountBytes + 1
  /\ decoding.input[1] = 1
  /\ decoding.input[2] # decoding.input[AmountBytes + 1]
  /\ decoding.output.variant = "Deposit"

\* The user vault account of `u` holds an initialized record.
UserInitialized(u) ==
  HasUserVault(u) /\ UserVault_unpack_from_slice(user_data[u]).is_initialized

\* ----------------------------------------------------------------- C12
\* C12: in every reachable state the deposited_amount of each user vault is
\* at most the total_deposits of the persisted Vault.  Stated as the claim
\* states it; the Vault buffer holds no total_deposits, and withdraw_tokens
\* lowers the total before the balance test that can still refuse.
C12_AmountWithinTotal ==
  VaultRecord.is_initialized =>
    \A u \in Users : UserAmount(u) <= VaultRecord.total_deposits

\* ----------------------------------------------------------------- C13
\* C13: the Vault record becomes initialized only in an InitVault that
\* returns Ok, a user vault record only in a Deposit of its own user that
\* returns Ok, and an initialized record stays initialized through every
\* later invocation, whatever it returns.
C13_InitializationMonotone ==
  [][/\ vault_data' # vault_data =>
          /\ (~VaultRecord.is_initialized /\ VaultRecord.is_initialized')
               => (call'.op = "InitVault" /\ result' = "Ok")
          /\ VaultRecord.is_initialized => VaultRecord.is_initialized'
     /\ \A u \in Users :
          user_data'[u] # user_data[u] =>
            /\ (~UserInitialized(u) /\ UserInitialized(u)')
                 => (call'.op = "Deposit" /\ call'.requester = u /\ result' = "Ok")
            /\ UserInitialized(u) => UserInitialized(u)']_vars

\* A user vault emptied by its user is still initialized after a refused
\* invocation.
C13_Witness ==
  /\ VaultRecord.is_initialized
  /\ call.op = "Withdraw"
  /\ call.amount > 0
  /\ UserInitialized(call.requester)
  /\ UserAmount(call.requester) = 0
  /\ result = "InsufficientFunds"

\* ----------------------------------------------------------------- C14
\* C14: a Deposit or Withdraw that passes a user vault address other than
\* the derived one writes no record and invokes no transfer.  Stated as the
\* claim states it; both handlers pack the Vault before they compare the
\* address.
C14_MismatchWritesNothing ==
  (call.op \in {"Deposit", "Withdraw"} /\ ~AddressMatches(call))
    => (written = {} /\ xfer = <<>>)

\* ----------------------------------------------------------------- C15
\* C15: the transfer of a successful Deposit goes to the vault_token_account
\* recorded in the Vault, the transfer of a successful Withdraw comes from
\* it.  Stated as the claim states it; the handlers use the account passed
\* and never compare it with the record.
C15_TransfersUseRecordedPool ==
  (result = "Ok" /\ call.op \in {"Deposit", "Withdraw"}) =>
    /\ Len(xfer) = 1
    /\ call.op = "Deposit" => xfer[1].destination = VaultRecord.vault_token_account
    /\ call.op = "Withdraw" => xfer[1].source = VaultRecord.vault_token_account

\* ----------------------------------------------------------------- C16
\* C16: withdraw_tokens invokes at most one transfer, of the amount asked,
\* signed by the derived vault authority, and only when the requester
\* signed, the total and the balance both covered the amount, the address
\* was the derived one and both records were packed; a Withdraw refused by
\* one of these tests invokes none.
C16_WithdrawTransferLast ==
  [][call'.op = "Withdraw" =>
       /\ Len(xfer') <= 1
       /\ result' \in {"MissingRequiredSignature", "UninitializedAccount",
                       "InsufficientFunds", "InvalidAccountData"} => xfer' = <<>>
       /\ xfer' # <<>> =>
            \A u \in Users :
              call'.requester = u =>
                /\ xfer'[1].amount = call'.amount
                /\ xfer'[1].authority = VaultAuthority
                /\ xfer'[1].destination = UserTokenAccount(u)
                /\ call'.is_signer
                /\ VaultRecord.is_initialized
                /\ VaultRecord.total_deposits >= call'.amount
                /\ AddressMatches(call')
                /\ UserInitialized(u)
                /\ UserAmount(u) >= call'.amount
                /\ UserAmount(u)' = UserAmount(u) - call'.amount
                /\ written' = {VaultKey, UserVaultPda(u, VaultKey)}
                /\ result' \in {"Ok", "TransferError"}]_vars

\* A Withdraw of a positive amount invoked its transfer.
C16_Witness ==
  /\ call.op = "Withdraw"
  /\ call.amount > 0
  /\ result = "Ok"
  /\ Len(xfer) = 1
  /\ xfer[1].amount = call.amount
  /\ written = {VaultKey, call.user_vault_account}

\* ----------------------------------------------------------------- C17
\* C17 as stated: a Withdraw (by a signer, on an initialized vault, at the
\* derived address) from a user vault account without data returns
\* InvalidAccountData for every amount and invokes no transfer.
C17_EmptySlotAlwaysInvalid ==
  [][\A u \in Users :
       (/\ call'.op = "Withdraw"
        /\ call'.requester = u
        /\ call'.is_signer
        /\ VaultRecord.is_initialized
        /\ AddressMatches(call')
        /\ ~HasUserVault(u))
       => (result' = "InvalidAccountData" /\ xfer' = <<>>)]_vars

\* C17 as amended: such a Withdraw invokes no transfer and leaves the
\* account without data; it returns InvalidAccountData for every amount
\* that total_deposits covers, 0 included, and InsufficientFunds for a
\* larger one.
C17_EmptySlotRefused ==
  [][\A u \in Users :
       (/\ call'.op = "Withdraw"
        /\ call'.requester = u
        /\ call'.is_signer
        /\ VaultRecord.is_initialized
        /\ AddressMatches(call')
        /\ ~HasUserVault(u))
       => (/\ xfer' = <<>>
           /\ ~HasUserVault(u)'
           /\ result' = (IF call'.amount <= VaultRecord.total_deposits
                         THEN "InvalidAccountData" ELSE "InsufficientFunds"))]_vars

\* A Withdraw of 0 from an account without data was refused, in a vault
\* another user has deposited in.
C17_Witness ==
  /\ call.op = "Withdraw"
  /\ call.is_signer
  /\ call.amount = 0
  /\ AddressMatches(call)
  /\ ~HasUserVault(call.requester)
  /\ \E u \in Users : UserAmount(u) > 0
  /\ result = "InvalidAccountData"
  /\ xfer = <<>>

\* ----------------------------------------------------------------- C18
\* C18: a Deposit or Withdraw on a vault whose record is not initialized is
\* refused before any pack and any transfer, and no user vault record exists
\* while the Vault record is not initialized.
C18_UncreatedVaultRefused ==
  ~VaultRecord.is_initialized =>
    /\ \A u \in Users : ~HasUserVault(u)
    /\ call.op \in {"Deposit", "Withdraw"} =>
         /\ result \in {"MissingRequiredSignature", "UninitializedAccount"}
         /\ call.is_signer => result = "UninitializedAccount"
         /\ written = {}
         /\ xfer = <<>>

\* A signed Deposit of a positive amount was refused on the zero-filled
\* vault account.
C18_Witness ==
  /\ ~VaultRecord.is_initialized
  /\ call.op = "Deposit"
  /\ call.is_signer
  /\ call.amount > 0
  /\ AddressMatches(call)
  /\ result = "UninitializedAccount"

\* ----------------------------------------------------------------- C19
\* C19: a Deposit whose transfer fails returns the transfer error and does
\* not credit the user; and no Deposit that fails leaves total_deposits
\* raised.  Stated as the claim states it; deposit_tokens packs the raised
\* total before it invokes the transfer.
C19_FailedDepositLeavesTotal ==
  [][(call'.op = "Deposit" /\ result' # "Ok") =>
       /\ user_data' = user_data
       /\ (xfer' # <<>> /\ ~xfer'[1].ok) => result' = "TransferError"
       /\ VaultRecord.total_deposits' <= VaultRecord.total_deposits
       /\ VaultKey \notin written']_vars

\* ----------------------------------------------------------------- C20
\* C20: a Deposit or Withdraw changes the user vault account of no user but
\* its requester, and over the invocations that returned Ok no user has
\* withdrawn more than that user deposited.
C20_Isolation ==
  /\ [][\A u \in Users :
          (call'.op \in {"Deposit", "Withdraw"} /\ call'.requester # u)
            => user_data'[u] = user_data[u]]_vars
  /\ [](\A u \in Users : flow[u] >= 0)

\* A user withdrew all that user had deposited while another user holds a
\* deposit.
C20_Witness ==
  /\ call.op = "Withdraw"
  /\ result = "Ok"
  /\ call.amount > 0
  /\ flow[call.requester] = 0
  /\ \E u \in Users : u # call.requester /\ UserAmount(u) > 0 /\ flow[u] > 0

\* ----------------------------------------------------------------- C21
\* C21: in every reachable state of a created vault the amount the accepted
\* transfers moved into the recorded vault token account, less the amount
\* they moved out of it, equals total_deposits, and so covers the sum of the
\* deposited_amount of the user vaults.  Stated as the claim states it; the
\* handlers transfer to and from the account passed, pack the total before
\* the transfer is invoked, and the Vault buffer holds no total_deposits.
C21_PoolSolvency ==
  VaultRecord.is_initialized =>
    /\ pool = VaultRecord.total_deposits
    /\ pool >= SumAmounts(Users)

\* ----------------------------------------------------------------- C22
\* C22: a Deposit never returns the overflow error after its Vault pack and
\* its transfer: whenever the addition to total_deposits succeeds, the
\* addition to deposited_amount succeeds too.  Stated as the claim states
\* it; a refused Withdraw leaves total_deposits lowered below the amounts
\* of the user vaults, and the Vault buffer holds no total_deposits.
C22_SecondOverflowUnreachable ==
  (call.op = "Deposit" /\ result = "InvalidInstructionData")
    => (written = {} /\ xfer = <<>>)

\* ----------------------------------------------------------------- C23
\* C23: on a created vault every Deposit and Withdraw, whatever it returns,
\* leaves is_initialized, owner, token_mint and vault_token_account of the
\* Vault record as they were; of the Vault it changes at most total_deposits.
C23_VaultFieldsFrozen ==
  [][(VaultRecord.is_initialized /\ call'.op \in {"Deposit", "Withdraw"}) =>
       /\ VaultRecord.is_initialized' = VaultRecord.is_initialized
       /\ VaultRecord.owner' = VaultRecord.owner
       /\ VaultRecord.token_mint' = VaultRecord.token_mint
       /\ VaultRecord.vault_token_account' = VaultRecord.vault_token_account
       /\ vault_data' = vault_data]_vars

\* A Withdraw by a user who is not the owner packed the Vault of a vault
\* created with token account X.
C23_Witness ==
  /\ VaultRecord.is_initialized
  /\ call.op = "Withdraw"
  /\ call.amount > 0
  /\ result = "Ok"
  /\ written # {}
  /\ VaultRecord.owner \in Users
  /\ VaultRecord.owner # call.requester
  /\ VaultRecord.vault_token_account = "X"

====
